---- MODULE Spec2Model ----
(***************************************************************************)
(* Model of the mail scanner (src/index.ts): main() validates the          *)
(* environment, fetches the unread emails, classifies them one by one with *)
(* the language model, builds the summary report and dispatches it.        *)
(***************************************************************************)
EXTENDS Integers, Sequences, FiniteSets, TLC

\* Largest number of unread emails the mailbox listing returns in the model.
MaxEmails == 3

\* What a missing property or an undefined value prints as in a template
\* string.
UNDEFINED == "undefined"

\* A category is a string that the report uses as a property key; the
\* model writes it as the sequence of its characters.  An undefined
\* category is coerced to the key "undefined".
UndefinedKey == << "u", "n", "d", "e", "f", "i", "n", "e", "d" >>

\* The configured summary address of the runs that have one.
TargetAddress == "summary@example.org"

----------------------------------------------------------------------------
(* Values a classification can take at run time.  JSON.parse returns any   *)
(* JSON value; property access on a non-object yields undefined.  All      *)
(* values share one record shape; kind tells null, a falsy scalar (0,      *)
(* false, ""), a truthy non-object (5, true, "x") and an object apart.     *)

JsValue(k, c, i, a, s) ==
    [kind |-> k, category |-> c, importance |-> i, suggestedAction |-> a, summary |-> s]

NULL == JsValue("null", UndefinedKey, UNDEFINED, UNDEFINED, UNDEFINED)

FalsyScalar == JsValue("falsy", UndefinedKey, UNDEFINED, UNDEFINED, UNDEFINED)

TruthyScalar == JsValue("truthy", UndefinedKey, UNDEFINED, UNDEFINED, UNDEFINED)

Obj(c, i, a) == JsValue("object", c, i, a, "text")

\* JavaScript truthiness of a classification value (if (classification)).
Truthy(v) == v.kind \in {"truthy", "object"}

\* The value sets the prompt enumerates for the three enumerated fields.
Categories ==
    { << "w", "o", "r", "k" >>,
      << "p", "e", "r", "s", "o", "n", "a", "l" >>,
      << "s", "p", "a", "m" >>,
      << "n", "e", "w", "s", "l", "e", "t", "t", "e", "r" >>,
      << "u", "r", "g", "e", "n", "t" >>,
      << "m", "e", "e", "t", "i", "n", "g" >>,
      << "i", "n", "v", "o", "i", "c", "e" >>,
      << "s", "u", "p", "p", "o", "r", "t" >> }

Importances == {"low", "medium", "high", "critical"}

SuggestedActions ==
    {"reply", "forward", "archive", "delete", "schedule_meeting", "follow_up", "no_action"}

\* Objects the model may answer with: within the enumerated sets, and
\* outside them (a key of Object.prototype as category, categories that
\* are array indices, an unknown importance).  A value without any of the
\* fields is TruthyScalar or FalsyScalar: every field of it reads undefined.
ReplyObjects ==
    { Obj(<< "w", "o", "r", "k" >>, "high", "reply"),
      Obj(<< "w", "o", "r", "k" >>, "medium", "archive"),
      Obj(<< "s", "p", "a", "m" >>, "low", "delete"),
      Obj(<< "u", "r", "g", "e", "n", "t" >>, "critical", "follow_up"),
      Obj(<< "c", "o", "n", "s", "t", "r", "u", "c", "t", "o", "r" >>, "high", "reply"),
      Obj(<< "_", "_", "p", "r", "o", "t", "o", "_", "_" >>, "low", "archive"),
      Obj(<< "w", "o", "r", "k" >>, "asap", "reply"),
      Obj(<< "5" >>, "low", "reply"),
      Obj(<< "1", "0" >>, "medium", "no_action") }

JsonValues == ReplyObjects \cup {NULL, FalsyScalar, TruthyScalar}

\* Outcomes of one chat completion request: the request throws (network
\* error, no choices), or it resolves with a message content that is
\* missing/empty, is no JSON text, or is the JSON text of a value.
Replies ==
    { [kind |-> "throw", value |-> NULL],
      [kind |-> "empty", value |-> NULL],
      [kind |-> "nonjson", value |-> NULL] }
    \cup { [kind |-> "json", value |-> v] : v \in JsonValues }

\* JSON.parse(content): throws on text that is no JSON, else the value.
JSONparse(reply) ==
    IF reply.kind = "json" THEN [ok |-> TRUE, value |-> reply.value]
                           ELSE [ok |-> FALSE, value |-> NULL]

\* classifyWithOpenAI where an exception escapes to the caller.
classifyWithOpenAI_raising(reply) ==
    IF reply.kind \in {"throw", "nonjson"} THEN [raised |-> TRUE, value |-> NULL]
    ELSE IF reply.kind = "empty" THEN [raised |-> FALSE, value |-> NULL]
    ELSE [raised |-> FALSE, value |-> reply.value]

\* classifyWithOpenAI: the result of the call given the completion outcome.
\* raised tells whether an exception reaches the caller.
classifyWithOpenAI(reply) ==
    IF reply.kind = "throw" THEN [raised |-> FALSE, value |-> NULL]
    ELSE IF reply.kind = "empty" THEN [raised |-> FALSE, value |-> NULL]
    ELSE LET p == JSONparse(reply) IN
         IF p.ok THEN [raised |-> FALSE, value |-> p.value]
                 ELSE [raised |-> FALSE, value |-> NULL]

-----------------------------------------------------------------------------------------------------------------------------------------------
(* Emails.  A message record exposes id, subject, body content and sender  *)
(* address; each of the three may be missing (undefined), and a present    *)
(* text may be empty or read "undefined".                                  *)

\* A value that is a string or undefined.
Missing == [defined |-> FALSE, text |-> ""]

Txt(t) == [defined |-> TRUE, text |-> t]

\* ${v} in a template string.
Show(v) == IF v.defined THEN v.text ELSE UNDEFINED

\* v || fallback: the fallback replaces every falsy value, undefined and
\* the empty string.
OrElse(v, fallback) == IF v.defined /\ v.text # "" THEN v.text ELSE fallback

\* The i-th email of a listing.  In a complete listing every email has its
\* own subject, body and sender; in the other listings the emails take
\* turns: fields missing, texts empty, texts reading "undefined".
Email(i, complete) ==
    IF complete
    THEN [id |-> i, subject |-> Txt("subject-" \o ToString(i)),
          body |-> Txt("body-" \o ToString(i)), from |-> Txt("sender-" \o ToString(i))]
    ELSE CASE i % 3 = 1 -> [id |-> i, subject |-> Missing, body |-> Missing, from |-> Missing]
           [] i % 3 = 2 -> [id |-> i, subject |-> Txt(""), body |-> Txt(""), from |-> Txt("")]
           [] OTHER -> [id |-> i, subject |-> Txt(UNDEFINED), body |-> Txt(UNDEFINED),
                        from |-> Txt("sender-" \o ToString(i))]

\* The sequences the mailbox listing can return: 0..MaxEmails unread
\* emails, complete or not.
Mailboxes ==
    { [i \in 1..n |-> Email(i, complete)] : n \in 0..MaxEmails, complete \in BOOLEAN }

----------------------------------------------------------------------------
(* The category tally, a plain object used as a map.  counts is the        *)
(* sequence of its own properties in the order Object.entries lists them:  *)
(* the array indices in ascending numeric order, then the other keys in    *)
(* insertion order.  Lookups fall through to Object.prototype.             *)

\* Property names every plain object inherits from Object.prototype.
ObjectPrototypeKeys ==
    { << "c", "o", "n", "s", "t", "r", "u", "c", "t", "o", "r" >>,
      << "_", "_", "p", "r", "o", "t", "o", "_", "_" >>,
      << "t", "o", "S", "t", "r", "i", "n", "g" >>,
      << "t", "o", "L", "o", "c", "a", "l", "e", "S", "t", "r", "i", "n", "g" >>,
      << "v", "a", "l", "u", "e", "O", "f" >>,
      << "h", "a", "s", "O", "w", "n", "P", "r", "o", "p", "e", "r", "t", "y" >>,
      << "i", "s", "P", "r", "o", "t", "o", "t", "y", "p", "e", "O", "f" >>,
      << "p", "r", "o", "p", "e", "r", "t", "y", "I", "s", "E", "n", "u", "m", "e", "r", "a", "b", "l", "e" >>,
      << "_", "_", "d", "e", "f", "i", "n", "e", "G", "e", "t", "t", "e", "r", "_", "_" >>,
      << "_", "_", "d", "e", "f", "i", "n", "e", "S", "e", "t", "t", "e", "r", "_", "_" >>,
      << "_", "_", "l", "o", "o", "k", "u", "p", "G", "e", "t", "t", "e", "r", "_", "_" >>,
      << "_", "_", "l", "o", "o", "k", "u", "p", "S", "e", "t", "t", "e", "r", "_", "_" >> }

\* The key whose assignment sets the prototype instead of a property.
ProtoKey == << "_", "_", "p", "r", "o", "t", "o", "_", "_" >>

\* A tally value: a number n, or the string made of an inherited member's
\* text followed by n characters "1".
Num(n) == [isNumber |-> TRUE, n |-> n]

Str(n) == [isNumber |-> FALSE, n |-> n]

DigitChars == {"0", "1", "2", "3", "4", "5", "6", "7", "8", "9"}

\* The largest array index, 2^32 - 2.
LargestArrayIndex == << "4", "2", "9", "4", "9", "6", "7", "2", "9", "4" >>

DigitValue(c) == CHOOSE d \in 0..9 : ToString(d) = c

\* a < b for two digit sequences of one length.
DigitsLess(a, b) ==
    \E j \in 1..Len(a) :
        /\ DigitValue(a[j]) < DigitValue(b[j])
        /\ \A i \in 1..(j - 1) : a[i] = b[i]

\* Whether a key is an array index: the canonical decimal text of an
\* integer from 0 to 2^32 - 2.  Object.entries lists these keys first.
IsArrayIndex(key) ==
    /\ Len(key) >= 1
    /\ \A j \in 1..Len(key) : key[j] \in DigitChars
    /\ (Len(key) = 1 \/ key[1] # "0")
    /\ \/ Len(key) < Len(LargestArrayIndex)
       \/ Len(key) = Len(LargestArrayIndex) /\ ~DigitsLess(LargestArrayIndex, key)

\* Numeric order of two array indices: the shorter text is the smaller
\* number, texts of one length compare digit by digit.
IndexLess(a, b) ==
    \/ Len(a) < Len(b)
    \/ Len(a) = Len(b) /\ DigitsLess(a, b)

OwnIndex(counts, key) ==
    IF \E j \in 1..Len(counts) : counts[j].key = key
    THEN CHOOSE j \in 1..Len(counts) : counts[j].key = key
    ELSE 0

\* The own properties after a new one is added: an array index goes after
\* the smaller array indices, any other key at the end.
AddProperty(counts, entry) ==
    LET before == Cardinality({ j \in 1..Len(counts) :
                      IsArrayIndex(counts[j].key) /\ IndexLess(counts[j].key, entry.key) })
    IN  IF ~IsArrayIndex(entry.key) THEN Append(counts, entry)
        ELSE SubSeq(counts, 1, before) \o << entry >> \o SubSeq(counts, before + 1, Len(counts))

\* categoryCounts[key] = (categoryCounts[key] || 0) + 1
TallyStep(counts, key) ==
    LET j == OwnIndex(counts, key)
        next == IF j > 0
                THEN IF counts[j].value.isNumber THEN Num(counts[j].value.n + 1)
                                                 ELSE Str(counts[j].value.n + 1)
                ELSE IF key \in ObjectPrototypeKeys THEN Str(1) ELSE Num(1)
    IN  IF key = ProtoKey THEN counts
        ELSE IF j > 0 THEN [counts EXCEPT ![j].value = next]
        ELSE AddProperty(counts, [key |-> key, value |-> next])

RECURSIVE CountCategories(_, _)
\* The first forEach of generateSummaryReport, tally part.
CountCategories(pairs, counts) ==
    IF pairs = <<>> THEN counts
    ELSE LET c == Head(pairs).classification IN
         CountCategories(Tail(pairs),
                         IF Truthy(c) THEN TallyStep(counts, c.category) ELSE counts)

\* importance === 'high' || importance === 'critical'
IsHighPriority(c) == c.importance = "high" \/ c.importance = "critical"

\* A high-priority filter that forgets 'critical'.
HighPriorityEmails_highOnly(pairs) ==
    SelectSeq(pairs, LAMBDA p : Truthy(p.classification) /\ p.classification.importance = "high")

\* The first forEach of generateSummaryReport, high-priority part.
HighPriorityEmails(pairs) ==
    SelectSeq(pairs, LAMBDA p : Truthy(p.classification) /\ IsHighPriority(p.classification))

\* A listing that does not skip the emails without classification.
ClassifiedPairs_all(pairs) == pairs

\* The pairs the second forEach of generateSummaryReport lists.
ClassifiedPairs(pairs) == SelectSeq(pairs, LAMBDA p : Truthy(p.classification))

----------------------------------------------------------------------------
(* The rendered report: the sequence of lines that summary.join joins.     *)
(* email is the id of the email a line is about (0 for the other lines),   *)
(* a and b are the texts substituted into the line (a category as its      *)
(* character sequence), count a tally value.                               *)

Line(tag, email, a, b, count) ==
    [tag |-> tag, email |-> email, a |-> a, b |-> b, count |-> count]

Text(tag) == Line(tag, 0, "", "", Num(0))

TallyLines(counts) ==
    [j \in 1..Len(counts) |-> Line("tally", 0, counts[j].key, "", counts[j].value)]

HighEntry(p) ==
    << Line("hp_subject", p.email.id, Show(p.email.subject), p.classification.importance, Num(0)),
       Line("hp_from", p.email.id, Show(p.email.from), "", Num(0)),
       Line("hp_action", p.email.id, p.classification.suggestedAction, "", Num(0)),
       Line("hp_summary", p.email.id, p.classification.summary, "", Num(0)) >>

AllEntry(p) ==
    << Line("all_subject", p.email.id, OrElse(p.email.subject, "No Subject"), "", Num(0)),
       Line("all_from", p.email.id, OrElse(p.email.from, "Unknown"), "", Num(0)),
       Line("all_category", p.email.id, p.classification.category,
            p.classification.importance, Num(0)),
       Line("all_action", p.email.id, p.classification.suggestedAction, "", Num(0)),
       Line("all_summary", p.email.id, p.classification.summary, "", Num(0)) >>

RECURSIVE Flatten(_)
Flatten(seqs) == IF seqs = <<>> THEN <<>> ELSE Head(seqs) \o Flatten(Tail(seqs))

\* generateSummaryReport(classifications)
generateSummaryReport(pairs) ==
    LET counts == CountCategories(pairs, <<>>)
        high == HighPriorityEmails(pairs)
        listed == ClassifiedPairs(pairs)
    IN  << Text("title"), Text("breakdown_header") >>
        \o TallyLines(counts)
        \o (IF Len(high) > 0
            THEN << Text("hp_header") >> \o Flatten([j \in 1..Len(high) |-> HighEntry(high[j])])
            ELSE <<>>)
        \o << Text("all_header") >>
        \o Flatten([j \in 1..Len(listed) |-> AllEntry(listed[j])])

----------------------------------------------------------------------------
(* The run of main().                                                      *)

VARIABLES
    env,              \* the environment variables read at module load
    pc,               \* where main() stands
    emails,           \* the result of fetchUnreadEmails
    classifications,  \* the pairs processEmails has accumulated
    pending,          \* indices of the emails whose classifier call is outstanding
    classifierCalls,  \* the arguments of the classifyWithOpenAI calls, in order
    tokenRequests,    \* number of credential.getToken requests made
    listCalls,        \* number of mailbox listing requests made
    sendCalls,        \* the arguments of the sendSummaryEmail calls, in order
    posts,            \* the sendMail requests posted, in order
    summaryReport,    \* the reports generateSummaryReport has returned, in order
    console,          \* what was written to the process output, in order
    exitCode          \* the codes process.exit was called with

vars == << env, pc, emails, classifications, pending, classifierCalls, tokenRequests,
           listCalls, sendCalls, posts, summaryReport, console, exitCode >>

\* An environment: which variables are set, and the summary address ("" when
\* unset).
Environments ==
    [CLIENT_ID : BOOLEAN, CLIENT_SECRET : BOOLEAN, TENANT_ID : BOOLEAN,
     AZURE_OPENAI_API_KEY : BOOLEAN, AZURE_OPENAI_API_ENDPOINT : BOOLEAN,
     SUMMARY_TARGET_EMAIL : {"", TargetAddress}]

\* One console write: its level, its message and, for the report and the
\* send announcement, the report text written with it.
Log(level, msg, text) == [level |-> level, msg |-> msg, text |-> text]

\* catch (error) of main: console.error, then process.exit(1).
Abort(msg) ==
    /\ console' = Append(console, Log("error", msg, <<>>))
    /\ exitCode' = Append(exitCode, 1)
    /\ pc' = "Aborted"

Init ==
    /\ env \in Environments
    /\ pc = "Start"
    /\ emails = <<>>
    /\ classifications = <<>>
    /\ pending = {}
    /\ classifierCalls = <<>>
    /\ tokenRequests = 0
    /\ listCalls = 0
    /\ sendCalls = <<>>
    /\ posts = <<>>
    /\ summaryReport = <<>>
    /\ console = <<>>
    /\ exitCode = <<>>

\* The identity check of main: !CLIENT_ID || !CLIENT_SECRET || !TENANT_ID.
CredentialsMissing_idOnly(e) == ~e.CLIENT_ID

CredentialsMissing(e) == ~e.CLIENT_ID \/ ~e.CLIENT_SECRET \/ ~e.TENANT_ID

\* !AZURE_OPENAI_API_KEY || !AZURE_OPENAI_API_ENDPOINT
OpenAIMissing(e) == ~e.AZURE_OPENAI_API_KEY \/ ~e.AZURE_OPENAI_API_ENDPOINT

\* main, up to its first await: the two environment checks and, when they
\* pass, the token request of getGraphClient, which main then awaits.
ValidateEnv ==
    /\ pc = "Start"
    /\ IF CredentialsMissing(env)
       THEN /\ console' = console \o << Log("log", "Starting email scanner...", <<>>),
                                        Log("error", "Missing required Azure AD credentials", <<>>) >>
            /\ exitCode' = Append(exitCode, 1)
            /\ pc' = "Aborted"
       ELSE IF OpenAIMissing(env)
       THEN /\ console' = console \o << Log("log", "Starting email scanner...", <<>>),
                                        Log("error", "Missing required Azure OpenAI credentials", <<>>) >>
            /\ exitCode' = Append(exitCode, 1)
            /\ pc' = "Aborted"
       ELSE /\ console' = Append(console, Log("log", "Starting email scanner...", <<>>))
            /\ exitCode' = exitCode
            /\ pc' = "GetToken"
    /\ tokenRequests' = IF pc' = "GetToken" THEN tokenRequests + 1 ELSE tokenRequests
    /\ UNCHANGED << env, emails, classifications, pending, classifierCalls,
                    listCalls, sendCalls, posts, summaryReport >>

\* The token request of main's getGraphClient resolves or rejects; with the
\* token, fetchUnreadEmails issues the listing request, which main awaits.
GetGraphClient ==
    /\ pc = "GetToken"
    /\ \E ok \in BOOLEAN :
         IF ok THEN /\ pc' = "FetchUnread"
                    /\ listCalls' = listCalls + 1
                    /\ UNCHANGED << console, exitCode >>
               ELSE /\ Abort("Error running email scanner:")
                    /\ listCalls' = listCalls
    /\ UNCHANGED << env, emails, classifications, pending, classifierCalls, tokenRequests,
                    sendCalls, posts, summaryReport >>

\* A check that never takes the early return.
NoUnread_never(box) == FALSE

\* emails.length === 0
NoUnread(box) == Len(box) = 0

\* The listing request of fetchUnreadEmails resolves or rejects, and the
\* check that follows it; a non-empty listing enters processEmails.
FetchUnreadEmails ==
    /\ pc = "FetchUnread"
    /\ \/ \E box \in Mailboxes :
            /\ emails' = box
            /\ IF NoUnread(box)
               THEN /\ console' = Append(console, Log("log", "No unread emails found.", <<>>))
                    /\ pc' = "Done"
               ELSE /\ console' = Append(console,
                          Log("log", "Processing " \o ToString(Len(box)) \o " unread emails...", <<>>))
                    /\ pc' = IF Len(box) = 0 THEN "Aggregating" ELSE "Classifying"
            /\ exitCode' = exitCode
       \/ /\ emails' = emails
          /\ Abort("Error running email scanner:")
    /\ UNCHANGED << env, classifications, pending, classifierCalls, tokenRequests,
                    listCalls, sendCalls, posts, summaryReport >>

\* A loop that starts every call without awaiting the one before.
AwaitsPrevious_fanOut(outstanding) == TRUE

\* const classification = await classifyWithOpenAI(...): the loop does not
\* go on to the next email while a call is outstanding.
AwaitsPrevious(outstanding) == outstanding = {}

\* One iteration of the loop of processEmails, up to the await: the
\* console write and the call for the next email, with the sentinel texts
\* for a missing or empty subject or body.
ClassifyCall ==
    /\ pc = "Classifying"
    /\ AwaitsPrevious(pending)
    /\ Len(classifierCalls) < Len(emails)
    /\ LET email == emails[Len(classifierCalls) + 1] IN
         /\ pending' = pending \cup {Len(classifierCalls) + 1}
         /\ classifierCalls' = Append(classifierCalls,
                [email |-> email.id,
                 subject |-> OrElse(email.subject, "No Subject"),
                 body |-> OrElse(email.body, "No Content")])
         /\ console' = Append(console,
                Log("log", "Classifying: " \o OrElse(email.subject, "No Subject"), <<>>))
    /\ UNCHANGED << env, pc, emails, classifications, tokenRequests, listCalls,
                    sendCalls, posts, summaryReport, exitCode >>

\* An awaited classifier call resolves: the pair is pushed, and the loop
\* ends after the last email.
ClassifyResolve ==
    /\ pc = "Classifying"
    /\ \E i \in pending, reply \in Replies :
         LET r == classifyWithOpenAI(reply) IN
         /\ pending' = pending \ {i}
         /\ IF r.raised
            THEN /\ Abort("Error running email scanner:")
                 /\ UNCHANGED classifications
            ELSE /\ classifications' = Append(classifications,
                        [email |-> emails[i], classification |-> r.value])
                 /\ pc' = IF Len(classifications) + 1 = Len(emails)
                          THEN "Aggregating" ELSE "Classifying"
                 /\ console' = IF reply.kind = "empty"
                               THEN Append(console,
                                      Log("warn", "No content received from OpenAI", <<>>))
                               ELSE IF reply.kind \in {"throw", "nonjson"}
                               THEN Append(console,
                                      Log("warn", "Failed to classify email:", <<>>))
                               ELSE console
                 /\ exitCode' = exitCode
    /\ UNCHANGED << env, emails, classifierCalls, tokenRequests, listCalls,
                    sendCalls, posts, summaryReport >>

\* The end of processEmails: the report is generated and returned to main.
Aggregate ==
    /\ pc = "Aggregating"
    /\ summaryReport' = Append(summaryReport, generateSummaryReport(classifications))
    /\ pc' = "Dispatching"
    /\ UNCHANGED << env, emails, classifications, pending, classifierCalls, tokenRequests,
                    listCalls, sendCalls, posts, console, exitCode >>

\* A dispatch that sends whatever the configuration.
SummaryTargetSet_always(e) == TRUE

\* if (SUMMARY_TARGET_EMAIL)
SummaryTargetSet(e) == e.SUMMARY_TARGET_EMAIL # ""

\* The dispatch branch of main, and sendSummaryEmail up to its first
\* await: the token request of its getGraphClient.
Dispatch ==
    /\ pc = "Dispatching"
    /\ LET report == summaryReport[Len(summaryReport)] IN
       IF SummaryTargetSet(env)
       THEN /\ sendCalls' = Append(sendCalls, [summary |-> report])
            /\ IF env.SUMMARY_TARGET_EMAIL = ""
               THEN /\ console' = Append(console,
                          Log("warn", "No summary target email configured.", <<>>))
                    /\ pc' = "Sent"
               ELSE /\ console' = Append(console,
                          Log("log", "Sending summary email to " \o env.SUMMARY_TARGET_EMAIL, report))
                    /\ pc' = "SendToken"
       ELSE /\ sendCalls' = sendCalls
            /\ console' = console \o << Log("log", "Summary Report:", <<>>),
                                        Log("log", "report", report) >>
            /\ pc' = "Done"
    /\ tokenRequests' = IF pc' = "SendToken" THEN tokenRequests + 1 ELSE tokenRequests
    /\ UNCHANGED << env, emails, classifications, pending, classifierCalls,
                    listCalls, posts, summaryReport, exitCode >>

\* The sendMail request of sendSummaryEmail; status tells whether the
\* request is outstanding, was accepted or was rejected.
SendMessage(summary, e) ==
    [subject |-> "Email Summary", contentType |-> "Text", content |-> summary,
     toRecipients |-> << e.SUMMARY_TARGET_EMAIL >>, status |-> "outstanding"]

\* The token request of sendSummaryEmail's getGraphClient resolves or
\* rejects; with the token the sendMail request is posted and awaited.
SendGetGraphClient ==
    /\ pc = "SendToken"
    /\ \E ok \in BOOLEAN :
         IF ok THEN /\ pc' = "SendPost"
                    /\ posts' = Append(posts, SendMessage(sendCalls[Len(sendCalls)].summary, env))
                    /\ UNCHANGED << console, exitCode >>
               ELSE /\ Abort("Error running email scanner:")
                    /\ posts' = posts
    /\ UNCHANGED << env, emails, classifications, pending, classifierCalls, tokenRequests,
                    listCalls, sendCalls, summaryReport >>

\* The posted sendMail request resolves or rejects.
SendPost ==
    /\ pc = "SendPost"
    /\ \E ok \in BOOLEAN :
         IF ok THEN /\ posts' = [posts EXCEPT ![Len(posts)].status = "accepted"]
                    /\ pc' = "Sent"
                    /\ UNCHANGED << console, exitCode >>
               ELSE /\ posts' = [posts EXCEPT ![Len(posts)].status = "rejected"]
                    /\ Abort("Error running email scanner:")
    /\ UNCHANGED << env, emails, classifications, pending, classifierCalls, tokenRequests,
                    listCalls, sendCalls, summaryReport >>

\* sendSummaryEmail has returned to main: the confirmation is logged.
SummarySent ==
    /\ pc = "Sent"
    /\ console' = Append(console, Log("log", "Summary sent to " \o env.SUMMARY_TARGET_EMAIL, <<>>))
    /\ pc' = "Done"
    /\ UNCHANGED << env, emails, classifications, pending, classifierCalls, tokenRequests,
                    listCalls, sendCalls, posts, summaryReport, exitCode >>

Next ==
    \/ ValidateEnv
    \/ GetGraphClient
    \/ FetchUnreadEmails
    \/ ClassifyCall
    \/ ClassifyResolve
    \/ Aggregate
    \/ Dispatch
    \/ SendGetGraphClient
    \/ SendPost
    \/ SummarySent

Spec == Init /\ [][Next]_vars

\* The phase of the run, in the vocabulary of the orchestrator's state
\* machine.
Phase ==
    CASE pc = "Start" -> "Start"
      [] pc \in {"GetToken", "FetchUnread"} -> "Fetching"
      [] pc = "Classifying" -> "Classifying"
      [] pc = "Aggregating" -> "Aggregating"
      [] pc \in {"Dispatching", "SendToken", "SendPost", "Sent"} -> "Dispatching"
      [] pc = "Done" -> "Done"
      [] pc = "Aborted" -> "Aborted"

----------------------------------------------------------------------------
(* Reading a rendered report back, and the vocabulary of the properties.   *)

Range(f) == { f[x] : x \in DOMAIN f }

\* The emails the entries of a section are about, in the order of the
\* entries; tag is the tag of the first line of an entry of that section.
SectionEmails(report, tag) ==
    LET entries == SelectSeq(report, LAMBDA l : l.tag = tag)
    IN  [j \in 1..Len(entries) |-> entries[j].email]

HighPriorityTags == {"hp_header", "hp_subject", "hp_from", "hp_action", "hp_summary"}

\* The ids of the emails of the pairs that satisfy P, in the order of pairs.
IdsWhere(pairs, P(_)) ==
    LET sel == SelectSeq(pairs, P)
    IN  [j \in 1..Len(sel) |-> sel[j].email.id]

\* A classification that is no 'none': the classifier returned a usable
\* value.
Classified(p) == p.classification.kind \in {"truthy", "object"}

Terminated == pc \in {"Done", "Aborted"}

\* The run has gone through the dispatch branch of main.
Dispatched ==
    /\ summaryReport # <<>>
    /\ pc \in {"SendToken", "SendPost", "Sent", "Done", "Aborted"}

\* Number of times the console holds the report written as the summary
\* report (console.log(summaryReport)).
ReportWrites == Len(SelectSeq(console, LAMBDA l : l.msg = "report"))

IdentityUnset == ~env.CLIENT_ID \/ ~env.CLIENT_SECRET \/ ~env.TENANT_ID

----------------------------------------------------------------------------
\* C1: in a run that fetched n >= 1 emails, whatever classifier calls fail,
\* once classification is over the classifier has been called exactly n
\* times, once per fetched email in fetch order, and n pairs are recorded;
\* while classifying a call is outstanding or the next one can be issued,
\* no step leaves the classification phase for Aborted and the step after
\* it leads to the dispatch step; a resolution that logged a failure
\* records 'none' (null) for that email.
C1_State ==
    /\ (emails # <<>> /\ pc \notin {"FetchUnread", "Classifying"}) =>
          /\ Len(classifierCalls) = Len(emails)
          /\ \A i \in 1..Len(emails) : classifierCalls[i].email = emails[i].id
          /\ Len(classifications) = Len(emails)
    /\ pc = "Classifying" => (pending # {} \/ Len(classifierCalls) < Len(emails))

C1_Step ==
    /\ pc = "Classifying" =>
          /\ pc' \in {"Classifying", "Aggregating"}
          /\ exitCode' = exitCode
          /\ classifications' # classifications =>
                /\ Len(classifications') = Len(classifications) + 1
                /\ console' # console =>
                      classifications'[Len(classifications')].classification = NULL
    /\ pc = "Aggregating" => pc' = "Dispatching"

\* C1: the state part holds in every state and the step part of every step.
C1_FailureNeverAbortsBatch == [](C1_State) /\ [][C1_Step]_vars

C1_Witness ==
    /\ pc = "Dispatching"
    /\ Len(emails) >= 2
    /\ classifications[1].classification = NULL
    /\ \E j \in 1..Len(console) : console[j].msg = "Failed to classify email:"
    /\ Classified(classifications[2])
    /\ Len(classifierCalls) = Len(emails)

\* C2: when the mailbox listing returns an empty sequence the run goes
\* straight to Done, and there it has made no classifier call, built no
\* report, made no send call, written no report and not exited, with or
\* without a summary address; nothing happens after Done.
C2_State ==
    (pc = "Done" /\ emails = <<>>) =>
        /\ classifierCalls = <<>>
        /\ summaryReport = <<>>
        /\ sendCalls = <<>>
        /\ posts = <<>>
        /\ \A j \in 1..Len(console) : console[j].text = <<>>
        /\ exitCode = <<>>

C2_Step ==
    /\ (pc = "FetchUnread" /\ pc' # "Aborted" /\ emails' = <<>>) => pc' = "Done"
    /\ pc = "Done" => pc' = "Done"

\* C2: the state part holds in every state and the step part of every step.
C2_EmptyListingEndsQuietly == [](C2_State) /\ [][C2_Step]_vars

C2_Witness ==
    /\ pc = "Done"
    /\ emails = <<>>
    /\ listCalls = 1
    /\ env.SUMMARY_TARGET_EMAIL = TargetAddress

\* C3 as stated: after the dispatch branch, with the address unset the
\* report is written to the output and nothing is sent; with the address
\* set, once the run has ended exactly one send request has been made, with
\* the report as body and the address as single recipient.
C3_AsStated ==
    Dispatched =>
        /\ env.SUMMARY_TARGET_EMAIL = "" =>
              /\ ReportWrites = 1
              /\ sendCalls = <<>> /\ posts = <<>>
        /\ (env.SUMMARY_TARGET_EMAIL # "" /\ Terminated) =>
              /\ Len(posts) = 1
              /\ posts[1].content = summaryReport[1]
              /\ posts[1].toRecipients = << env.SUMMARY_TARGET_EMAIL >>

\* C3 as amended: with the address unset the report is written to the
\* output once and no send is called or posted; with the address set,
\* sendSummaryEmail is called exactly once with the report, the report is
\* not written as the summary report, at most one send request is posted,
\* it carries the report as body and the address as single recipient, and
\* exactly one has been posted unless the token request made by
\* sendSummaryEmail failed (then none is posted and the run aborts).
C3_DispatchBranch ==
    Dispatched =>
        /\ env.SUMMARY_TARGET_EMAIL = "" =>
              /\ ReportWrites = 1
              /\ console[Len(console)].text = summaryReport[1]
              /\ sendCalls = <<>> /\ posts = <<>>
              /\ pc = "Done"
        /\ env.SUMMARY_TARGET_EMAIL # "" =>
              /\ ReportWrites = 0
              /\ Len(sendCalls) = 1
              /\ sendCalls[1].summary = summaryReport[1]
              /\ Len(posts) <= 1
              /\ \A j \in 1..Len(posts) :
                    /\ posts[j].content = summaryReport[1]
                    /\ posts[j].toRecipients = << env.SUMMARY_TARGET_EMAIL >>
              /\ (Terminated /\ posts = <<>>) => (pc = "Aborted" /\ tokenRequests = 2)
              /\ pc \in {"Sent", "Done"} => (Len(posts) = 1 /\ posts[1].status = "accepted")

C3_Witness ==
    /\ pc = "Done"
    /\ env.SUMMARY_TARGET_EMAIL = TargetAddress
    /\ Len(posts) = 1
    /\ Len(posts[1].content) > 3
    /\ posts[1].content = summaryReport[1]

\* C4: with a client id, client secret or tenant id unset, the run can and
\* does leave Start only for Aborted, with exit code 1, and never makes a token
\* request, a mailbox listing, a classifier call or a send call.
C4_NoCallsWithoutIdentity ==
    IdentityUnset =>
        /\ pc \in {"Start", "Aborted"}
        /\ pc = "Start" => ENABLED (ValidateEnv /\ pc' = "Aborted")
        /\ pc = "Aborted" => exitCode = << 1 >>
        /\ tokenRequests = 0
        /\ listCalls = 0
        /\ classifierCalls = <<>>
        /\ sendCalls = <<>> /\ posts = <<>>

C4_Witness ==
    /\ pc = "Aborted"
    /\ env.CLIENT_ID /\ ~env.CLIENT_SECRET /\ env.TENANT_ID
    /\ env.AZURE_OPENAI_API_KEY /\ env.AZURE_OPENAI_API_ENDPOINT
    /\ exitCode = << 1 >>

\* C5: a failed send request is not fatal: the run does not abort, does not
\* exit with a non-zero code, and the failure is logged as a warning.
C5_SendErrorNonFatal ==
    (\E j \in 1..Len(posts) : posts[j].status = "rejected") =>
        /\ pc # "Aborted"
        /\ exitCode = <<>>
        /\ \E k \in 1..Len(console) : console[k].level = "warn"

\* C6: every value the classifier hands to its caller is 'none' (null) or
\* an object whose category, importance and suggestedAction are within
\* their enumerated sets, and no classifier call raises.
C6_ClassifierValidates ==
    /\ \A j \in 1..Len(classifications) :
          LET c == classifications[j].classification IN
          \/ c = NULL
          \/ /\ c.kind = "object"
             /\ c.category \in Categories
             /\ c.importance \in Importances
             /\ c.suggestedAction \in SuggestedActions
    /\ (pc = "Aborted" /\ emails # <<>>) => Len(classifications) = Len(emails)

\* C7: the entries of 'All Email Summaries' are the classified emails, each
\* once, in fetch order (the pairs themselves are in fetch order); an email
\* without classification has no line anywhere in the report.
C7_AllSummariesExact ==
    /\ \A i \in 1..Len(classifications) : classifications[i].email = emails[i]
    /\ \A k \in 1..Len(summaryReport) :
          LET report == summaryReport[k] IN
          /\ SectionEmails(report, "all_subject") = IdsWhere(classifications, Classified)
          /\ \A tag \in {"all_from", "all_category", "all_action", "all_summary"} :
                SectionEmails(report, tag) = SectionEmails(report, "all_subject")
          /\ \A p \in Range(classifications) :
                ~Classified(p) => \A j \in 1..Len(report) : report[j].email # p.email.id

C7_Witness ==
    /\ summaryReport # <<>>
    /\ Len(classifications) = 3
    /\ Classified(classifications[1])
    /\ ~Classified(classifications[2])
    /\ Classified(classifications[3])
    /\ SectionEmails(summaryReport[1], "all_subject") = << 1, 3 >>

\* C8: a classified email of importance high or critical has an entry in
\* 'High Priority Emails' and in 'All Email Summaries'; one of importance
\* low or medium only in 'All Email Summaries'; the high-priority entries
\* are in fetch order, under one header placed before the listing; with no
\* high or critical email the report has no high-priority line at all.
C8_HighPrioritySection ==
    \A k \in 1..Len(summaryReport) :
        LET report == summaryReport[k]
            hp == SectionEmails(report, "hp_subject")
            all == SectionEmails(report, "all_subject")
            urgent(p) == Classified(p) /\ p.classification.importance \in {"high", "critical"}
        IN  /\ \A p \in Range(classifications) :
                  /\ urgent(p) => (p.email.id \in Range(hp) /\ p.email.id \in Range(all))
                  /\ (Classified(p) /\ p.classification.importance \in {"low", "medium"}) =>
                        (p.email.id \notin Range(hp) /\ p.email.id \in Range(all))
            /\ hp = IdsWhere(classifications, urgent)
            /\ hp = <<>> => \A j \in 1..Len(report) : report[j].tag \notin HighPriorityTags
            /\ hp # <<>> =>
                  \E h \in 1..Len(report) :
                     /\ report[h].tag = "hp_header"
                     /\ \A j \in 1..Len(report) :
                           /\ (report[j].tag = "hp_header") => j = h
                           /\ (report[j].tag \in HighPriorityTags \ {"hp_header"}) => j > h
                           /\ (report[j].tag = "all_header") => j > h

C8_Witness ==
    /\ summaryReport # <<>>
    /\ Len(classifications) = 3
    /\ classifications[1].classification.importance = "critical"
    /\ classifications[2].classification.importance = "low"
    /\ classifications[3].classification.importance = "high"
    /\ SectionEmails(summaryReport[1], "hp_subject") = << 1, 3 >>
    /\ SectionEmails(summaryReport[1], "all_subject") = << 1, 2, 3 >>

\* C9: in a built report the tally lists exactly the categories of the
\* classified emails, each with the number of classified emails of that
\* category, and the tally values add up to the number of classified emails.
C9_TallyMatchesClassified ==
    \A k \in 1..Len(summaryReport) :
        LET tally == SelectSeq(summaryReport[k], LAMBDA l : l.tag = "tally")
            count(c) == Cardinality({ j \in 1..Len(classifications) :
                            /\ Classified(classifications[j])
                            /\ classifications[j].classification.category = c })
            seen == { p.classification.category : p \in { q \in Range(classifications) : Classified(q) } }
        IN  /\ { tally[j].a : j \in 1..Len(tally) } = seen
            /\ \A j \in 1..Len(tally) :
                  /\ tally[j].count.isNumber
                  /\ tally[j].count.n = count(tally[j].a)
                  /\ \A i \in 1..Len(tally) : tally[i].a = tally[j].a => i = j

\* C10: the phases follow Start, Fetching, Classifying, Aggregating,
\* Dispatching, Done (an empty listing goes from Fetching to Done); no step
\* leaves Classifying or Aggregating for Aborted; at most one classifier
\* call is outstanding, calls are issued in fetch order and a call is
\* issued only when every earlier call has resolved; a report exists only
\* when all n calls have resolved; Aborted can be entered from Start when
\* credentials are missing and from Fetching.
PhaseSteps ==
    { << "Start", "Fetching" >>, << "Start", "Aborted" >>,
      << "Fetching", "Classifying" >>, << "Fetching", "Done" >>, << "Fetching", "Aborted" >>,
      << "Classifying", "Aggregating" >>, << "Aggregating", "Dispatching" >>,
      << "Dispatching", "Done" >>, << "Dispatching", "Aborted" >> }

C10_State ==
    /\ Cardinality(pending) <= 1
    /\ pending \subseteq {Len(classifierCalls)}
    /\ Len(classifications) = Len(classifierCalls) - Cardinality(pending)
    /\ \A i \in 1..Len(classifierCalls) : classifierCalls[i].email = emails[i].id
    /\ \A i \in 1..Len(classifications) : classifications[i].email = emails[i]
    /\ summaryReport # <<>> =>
          (pending = {} /\ Len(classifications) = Len(emails) /\ Len(summaryReport) = 1)
    /\ Phase \in {"Start", "Fetching", "Classifying", "Aggregating"} => summaryReport = <<>>
    /\ Phase \in {"Start", "Fetching"} => classifierCalls = <<>>
    /\ (Phase = "Start" /\ (IdentityUnset \/ ~env.AZURE_OPENAI_API_KEY
                             \/ ~env.AZURE_OPENAI_API_ENDPOINT)) =>
          ENABLED (ValidateEnv /\ pc' = "Aborted")
    /\ Phase = "Fetching" => ENABLED (Next /\ pc' = "Aborted")

C10_Step ==
    /\ Phase' # Phase => << Phase, Phase' >> \in PhaseSteps
    /\ Len(classifierCalls') > Len(classifierCalls) =>
          /\ Len(classifications) = Len(classifierCalls)
          /\ Len(classifierCalls') = Len(classifierCalls) + 1

\* C10: the state part holds in every state and the step part of every step.
C10_PhasesInOrder == [](C10_State) /\ [][C10_Step]_vars

C10_Witness ==
    /\ pc = "Done"
    /\ Len(emails) = 3
    /\ Len(classifierCalls) = 3
    /\ Len(classifications) = 3
    /\ Len(summaryReport) = 1

====
